---- MODULE Spec2Model ----
(***************************************************************************)
(* csv_to_latex_names.py: read (given_name, family_name) rows, drop rows   *)
(* with an empty name, keep one representative per accent/case-folded      *)
(* (family, given) key (preferring the variant with more decomposable      *)
(* characters), capitalize single-word family names, sort by               *)
(* (last word, family, given) folded, and write one LaTeX \item per name.   *)
(*                                                                         *)
(* A string is a sequence of Unicode code points.  The characters used:    *)
(*    32 ' '   66 'B'   73 'I'   97 'a'   98 'b'  105 'i'                   *)
(*   205 'I' with acute   237 'i' with acute   305 dotless 'i'             *)
(*   769 combining acute accent                                            *)
(*   92 \  38 &  37 %  36 $  35 #  95 _  123 {  125 }  126 ~  94 ^         *)
(***************************************************************************)
EXTENDS Integers, Sequences, FiniteSets, TLC

VARIABLES csvfile, names_dict, stdout, names, tex, wrote, pc

vars == <<csvfile, names_dict, stdout, names, tex, wrote, pc>>

(***************************************************************************)
(* Bounds                                                                  *)
(***************************************************************************)
MaxRows == 3

MaxEscLen == 2

(***************************************************************************)
(* Python str / unicodedata primitives                                     *)
(***************************************************************************)
\* str.isspace() of one character, as str.strip() and str.split() use it
IsSpace(c) == c = 32

\* unicodedata.decomposition(c) as a sequence of code points (empty: none)
Decomposition(c) ==
  CASE c = 237 -> <<105, 769>>
    [] c = 205 -> <<73, 769>>
    [] OTHER   -> <<>>

RECURSIVE Flatten(_)
Flatten(ss) == IF ss = <<>> THEN <<>> ELSE Head(ss) \o Flatten(Tail(ss))

\* unicodedata.normalize('NFKD', s)
NFKD(s) ==
  Flatten([i \in DOMAIN s |->
             IF Decomposition(s[i]) = <<>> THEN <<s[i]>> ELSE Decomposition(s[i])])

IsAscii(c) == c < 128

\* s.encode('ASCII', 'ignore').decode('ASCII')
AsciiIgnore(s) == SelectSeq(s, IsAscii)

\* str.lower() of one character
LowerChar(c) ==
  CASE c = 73  -> 105
    [] c = 66  -> 98
    [] c = 205 -> 237
    [] OTHER   -> c

\* str.lower()
Lower(s) == [i \in DOMAIN s |-> LowerChar(s[i])]

\* the title-case mapping of one character, which str.capitalize() applies
\* to the first character (the dotless i maps to the ASCII capital I)
TitleChar(c) ==
  CASE c = 105 -> 73
    [] c = 98  -> 66
    [] c = 237 -> 205
    [] c = 305 -> 73
    [] OTHER   -> c

\* str.capitalize()
Capitalize(s) ==
  IF s = <<>> THEN <<>> ELSE <<TitleChar(Head(s))>> \o Lower(Tail(s))

RECURSIVE LStrip(_)
LStrip(s) == IF s /= <<>> /\ IsSpace(Head(s)) THEN LStrip(Tail(s)) ELSE s

RECURSIVE RStrip(_)
RStrip(s) ==
  IF s /= <<>> /\ IsSpace(s[Len(s)]) THEN RStrip(SubSeq(s, 1, Len(s) - 1)) ELSE s

\* str.strip()
Strip(s) == RStrip(LStrip(s))

\* the length of the leading whitespace-free run of s
RECURSIVE WordLen(_)
WordLen(s) == IF s = <<>> \/ IsSpace(Head(s)) THEN 0 ELSE 1 + WordLen(Tail(s))

\* str.split(): the maximal whitespace-free runs, in order
RECURSIVE Split(_)
Split(s) ==
  LET t == LStrip(s)
      n == WordLen(t)
  IN IF t = <<>> THEN <<>>
     ELSE <<SubSeq(t, 1, n)>> \o Split(SubSeq(t, n + 1, Len(t)))

\* str.replace(old, new) for a one-character old
Replace(s, old, new) ==
  Flatten([i \in DOMAIN s |-> IF s[i] = old THEN new ELSE <<s[i]>>])

\* a < b on str: lexicographic by code point
RECURSIVE StrLess(_, _)
StrLess(a, b) ==
  IF b = <<>> THEN FALSE
  ELSE IF a = <<>> THEN TRUE
  ELSE IF Head(a) /= Head(b) THEN Head(a) < Head(b)
  ELSE StrLess(Tail(a), Tail(b))

\* a < b on tuples of str: lexicographic by component
RECURSIVE TupleLess(_, _)
TupleLess(a, b) ==
  IF b = <<>> THEN FALSE
  ELSE IF a = <<>> THEN TRUE
  ELSE IF Head(a) /= Head(b) THEN StrLess(Head(a), Head(b))
  ELSE TupleLess(Tail(a), Tail(b))

(***************************************************************************)
(* The functions of the script                                             *)
(***************************************************************************)
normalize_name(name) == Lower(Strip(AsciiIgnore(NFKD(name))))

strip_accents(s) == AsciiIgnore(NFKD(s))

\* get_sort_key sorting by the first word of the family name
get_sort_key_FirstWord(family, given) ==
  LET words == Split(family)
      first_word == IF words /= <<>> THEN words[1] ELSE family
  IN <<Lower(strip_accents(first_word)),
       Lower(strip_accents(family)),
       Lower(strip_accents(given))>>

get_sort_key(family, given) ==
  LET words == Split(family)
      last_word == IF words /= <<>> THEN words[Len(words)] ELSE family
  IN <<Lower(strip_accents(last_word)),
       Lower(strip_accents(family)),
       Lower(strip_accents(given))>>

\* capitalize_if_single_word without the single-word test
capitalize_if_single_word_Always(family) == Capitalize(family)

capitalize_if_single_word(family) ==
  LET words == Split(family)
  IN IF Len(words) = 1 THEN Capitalize(words[1]) ELSE family

count_accents(s) == Cardinality({i \in DOMAIN s : Decomposition(s[i]) /= <<>>})

\* the key function of the sorted() call, on a (family, given) pair
SortKeyOf(x) == get_sort_key(x[1], x[2])

\* list.insert of x after every element whose key is not greater (stable)
RECURSIVE InsertSorted(_, _)
InsertSorted(x, sorted) ==
  IF sorted = <<>> THEN <<x>>
  ELSE IF TupleLess(SortKeyOf(x), SortKeyOf(Head(sorted)))
       THEN <<x>> \o sorted
       ELSE <<Head(sorted)>> \o InsertSorted(x, Tail(sorted))

\* sorted(list, key=...): a stable sort
RECURSIVE Sorted(_)
Sorted(list) ==
  IF list = <<>> THEN <<>>
  ELSE InsertSorted(list[Len(list)], Sorted(SubSeq(list, 1, Len(list) - 1)))

Textbackslash == <<92, 116, 101, 120, 116, 98, 97, 99, 107, 115, 108, 97, 115, 104, 123, 125>>

Textasciitilde == <<92, 116, 101, 120, 116, 97, 115, 99, 105, 105, 116, 105, 108, 100, 101, 123, 125>>

Textasciicircum == <<92, 116, 101, 120, 116, 97, 115, 99, 105, 105, 99, 105, 114, 99, 117, 109, 123, 125>>

latex_escape(s) ==
  LET s1  == Replace(s, 92, Textbackslash)
      s2  == Replace(s1, 38, <<92, 38>>)
      s3  == Replace(s2, 37, <<92, 37>>)
      s4  == Replace(s3, 36, <<92, 36>>)
      s5  == Replace(s4, 35, <<92, 35>>)
      s6  == Replace(s5, 95, <<92, 95>>)
      s7  == Replace(s6, 123, <<92, 123>>)
      s8  == Replace(s7, 125, <<92, 125>>)
      s9  == Replace(s8, 126, Textasciitilde)
  IN Replace(s9, 94, Textasciicircum)

\* the line write_latex writes for one name: "  \item <given> <family>\n"
ItemLine(family, given) ==
  <<32, 32, 92, 105, 116, 101, 109, 32>>
    \o latex_escape(given) \o <<32>> \o latex_escape(family) \o <<10>>

(***************************************************************************)
(* The representative mapping: a dict in insertion order, as a sequence of *)
(* entries [norm_pair, orig_pair]                                          *)
(***************************************************************************)
HasKey(d, k) == \E i \in DOMAIN d : d[i].norm_pair = k

IndexOf(d, k) == CHOOSE i \in DOMAIN d : d[i].norm_pair = k

Lookup(d, k) == d[IndexOf(d, k)].orig_pair

\* d[k] = v that never overwrites an existing key
SetItem_KeepOld(d, k, v) ==
  IF HasKey(d, k) THEN d ELSE Append(d, [norm_pair |-> k, orig_pair |-> v])

\* d[k] = v: a new key is appended, an old key keeps its position
SetItem(d, k, v) ==
  IF HasKey(d, k)
  THEN [d EXCEPT ![IndexOf(d, k)] = [norm_pair |-> k, orig_pair |-> v]]
  ELSE Append(d, [norm_pair |-> k, orig_pair |-> v])

Values(d) == [i \in DOMAIN d |-> d[i].orig_pair]

(***************************************************************************)
(* Inputs                                                                  *)
(***************************************************************************)
\* rows for duplicate resolution: "", "i", "i-acute", "dotless-i" families and
\* " ", "i", "i-acute ", "b" given names
FamilyNames == { <<>>, <<105>>, <<237>>, <<305>> }

GivenNames == { <<32>>, <<105>>, <<237, 32>>, <<98>> }

Rows == [given_name : GivenNames, family_name : FamilyNames]

\* rows for capitalization and sorting: families "i", "dotless-i", "iB", "b i",
\* "i b", "dotless-i i", "i-acute b" and given names "i", "b"
SortFamilyNames ==
  { <<105>>, <<305>>, <<105, 66>>, <<98, 32, 105>>, <<105, 32, 98>>,
    <<305, 32, 105>>, <<237, 32, 98>> }

SortGivenNames == { <<105>>, <<98>> }

SortRows == [given_name : SortGivenNames, family_name : SortFamilyNames]

EscChars == {92, 38, 37, 36, 35, 95, 123, 125, 126, 94, 97}

RECURSIVE StringsUpTo(_, _)
StringsUpTo(chars, n) ==
  IF n = 0 THEN { <<>> }
  ELSE LET shorter == StringsUpTo(chars, n - 1)
       IN shorter \cup { Append(s, c) : s \in shorter, c \in chars }

EscNames == StringsUpTo(EscChars, MaxEscLen)

(***************************************************************************)
(* The program                                                             *)
(***************************************************************************)
Init ==
  /\ csvfile = <<>>
  /\ names_dict = <<>>
  /\ stdout = <<>>
  /\ names = <<>>
  /\ tex = <<>>
  /\ wrote = <<>>
  /\ pc = "reading"

\* the completeness test without the family name
Incomplete_GivenOnly(given, family) == given = <<>>

\* "if not given or not family": the row is incomplete
Incomplete(given, family) == given = <<>> \/ family = <<>>

\* the accent score without the given name
AccentScore_FamilyOnly(family, given) == count_accents(family)

\* count_accents(family) + count_accents(given)
AccentScore(family, given) == count_accents(family) + count_accents(given)

\* the comparison with ties going to the arriving record
PreferCurrent_OrEqual(curr_accents, prev_accents) == curr_accents >= prev_accents

\* "if curr_accents > prev_accents": the arriving record replaces the previous
PreferCurrent(curr_accents, prev_accents) == curr_accents > prev_accents

\* the report line of a replacement naming the arriving record as removed
KeepingAccentedLine_RemovesCurrent(given, family, prev_given, prev_family) ==
  [accented |-> TRUE,
   kept |-> [given |-> given, family |-> family],
   removed |-> [given |-> given, family |-> family]]

\* print(f"Duplicate found: Keeping accented '{given} {family}', Removing ...")
KeepingAccentedLine(given, family, prev_given, prev_family) ==
  [accented |-> TRUE,
   kept |-> [given |-> given, family |-> family],
   removed |-> [given |-> prev_given, family |-> prev_family]]

\* print(f"Duplicate found: Keeping '{prev_given} {prev_family}', Removing ...")
KeepingLine(prev_given, prev_family, given, family) ==
  [accented |-> FALSE,
   kept |-> [given |-> prev_given, family |-> prev_family],
   removed |-> [given |-> given, family |-> family]]

\* one iteration of "for row in reader" in read_unique_names
ProcessRow(row) ==
  LET given == Strip(row.given_name)
      family == Strip(row.family_name)
      norm_given == normalize_name(given)
      norm_family == normalize_name(family)
      norm_pair == <<norm_family, norm_given>>
      orig_pair == <<family, given>>
  IN IF Incomplete(given, family)
     THEN UNCHANGED <<names_dict, stdout>>
     ELSE IF HasKey(names_dict, norm_pair)
     THEN LET prev == Lookup(names_dict, norm_pair)
              prev_family == prev[1]
              prev_given == prev[2]
              prev_accents == AccentScore(prev_family, prev_given)
              curr_accents == AccentScore(family, given)
          IN IF PreferCurrent(curr_accents, prev_accents)
             THEN /\ stdout' = Append(stdout,
                         KeepingAccentedLine(given, family, prev_given, prev_family))
                  /\ names_dict' = SetItem(names_dict, norm_pair, orig_pair)
             ELSE /\ stdout' = Append(stdout,
                         KeepingLine(prev_given, prev_family, given, family))
                  /\ UNCHANGED names_dict
     ELSE /\ names_dict' = SetItem(names_dict, norm_pair, orig_pair)
          /\ UNCHANGED stdout

\* the reader yields one more row of the file, drawn from pool
ReadFrom(pool) ==
  /\ pc = "reading"
  /\ Len(csvfile) < MaxRows
  /\ \E row \in pool :
       /\ csvfile' = Append(csvfile, row)
       /\ ProcessRow(row)
  /\ UNCHANGED <<names, tex, wrote, pc>>

ReadRow == ReadFrom(Rows)

ReadRowSort == ReadFrom(SortRows)

\* the reader is exhausted: capitalize, sort and return
SortNames ==
  /\ pc = "reading"
  /\ LET values == Values(names_dict)
     IN names' = Sorted([i \in DOMAIN values |->
                           <<capitalize_if_single_word(values[i][1]), values[i][2]>>])
  /\ pc' = "returned"
  /\ UNCHANGED <<csvfile, names_dict, stdout, tex, wrote>>

\* write_latex(names, tex_path) and the closing print of the main block
WriteLatex ==
  /\ pc = "returned"
  /\ tex' = [i \in DOMAIN names |-> ItemLine(names[i][1], names[i][2])]
  /\ wrote' = <<Len(names)>>
  /\ pc' = "done"
  /\ UNCHANGED <<csvfile, names_dict, stdout, names>>

Next == ReadRow \/ SortNames \/ WriteLatex

Spec == Init /\ [][Next]_vars

NextSort == ReadRowSort \/ SortNames \/ WriteLatex

SpecSort == Init /\ [][NextSort]_vars

\* write_latex called on a list of one name over the escaped characters
InitEscape ==
  /\ csvfile = <<>>
  /\ names_dict = <<>>
  /\ stdout = <<>>
  /\ \E family \in EscNames, given \in EscNames :
       /\ Len(given) <= 1
       /\ names = << <<family, given>> >>
  /\ tex = <<>>
  /\ wrote = <<>>
  /\ pc = "returned"

NextEscape == WriteLatex

SpecEscape == InitEscape /\ [][NextEscape]_vars

(***************************************************************************)
(* Vocabulary of the properties                                            *)
(***************************************************************************)
\* s is empty after whitespace trimming
Blank(s) == \A i \in DOMAIN s : IsSpace(s[i])

\* the rows read so far that have a given and a family name
ValidIdx ==
  {i \in DOMAIN csvfile :
     ~Blank(csvfile[i].given_name) /\ ~Blank(csvfile[i].family_name)}

\* the (family, given) record of row i
Rec(i) == <<Strip(csvfile[i].family_name), Strip(csvfile[i].given_name)>>

Recs == {Rec(i) : i \in ValidIdx}

\* the folded (family, given) key of a record
KeyOf(rec) == <<normalize_name(rec[1]), normalize_name(rec[2])>>

\* the number of characters of family + given that have a decomposition
Score(rec) ==
  LET s == rec[1] \o rec[2]
  IN Cardinality({i \in DOMAIN s : Decomposition(s[i]) /= <<>>})

\* the (family, given) record a report line names
PairOf(n) == <<n.family, n.given>>

Survivors == Values(names_dict)

Removed == [i \in DOMAIN stdout |-> PairOf(stdout[i].removed)]

Count(seq, x) == Cardinality({i \in DOMAIN seq : seq[i] = x})

\* the last whitespace-delimited word of a trimmed family name
LastWord(f) ==
  LET sp == {i \in DOMAIN f : IsSpace(f[i])}
  IN IF sp = {} THEN f
     ELSE SubSeq(f, (CHOOSE i \in sp : \A j \in sp : j <= i) + 1, Len(f))

\* the number of whitespace-delimited words of a name
WordCount(f) ==
  Cardinality({i \in DOMAIN f : ~IsSpace(f[i]) /\ (i = 1 \/ IsSpace(f[i - 1]))})

\* the row appended by the step, and its record
NewRow == csvfile'[Len(csvfile')]

NewRec == <<Strip(NewRow.family_name), Strip(NewRow.given_name)>>

RowRead == Len(csvfile') = Len(csvfile) + 1

(***************************************************************************)
(* C1                                                                      *)
(***************************************************************************)
\* C1: the returned list never holds two entries whose folded family names
\* are equal and whose folded given names are equal.
C1_NoFoldedDuplicates ==
  pc /= "reading" =>
    \A i, j \in DOMAIN names : i /= j => KeyOf(names[i]) /= KeyOf(names[j])

(***************************************************************************)
(* C2                                                                      *)
(***************************************************************************)
SameKeyPair ==
  /\ Len(csvfile) = 2
  /\ ValidIdx = {1, 2}
  /\ KeyOf(Rec(1)) = KeyOf(Rec(2))
  /\ Score(Rec(1)) /= Score(Rec(2))

\* C2: of two records with one folded key and different accent scores, the
\* richer one is the survivor, whichever arrives first.
C2_RicherSurvives ==
  SameKeyPair =>
    LET richer == IF Score(Rec(1)) > Score(Rec(2)) THEN Rec(1) ELSE Rec(2)
    IN /\ Survivors = <<richer>>
       /\ pc /= "reading" =>
            /\ Len(names) = 1
            /\ names[1][2] = richer[2]
            /\ Score(names[1]) = Score(richer)

C2_Witness == SameKeyPair /\ Score(Rec(1)) < Score(Rec(2)) /\ pc = "returned"

(***************************************************************************)
(* C3                                                                      *)
(***************************************************************************)
\* C3: every duplicate group has exactly one survivor, every other valid
\* record is the removed side of exactly one report line that names a kept
\* record of its group, and valid records = survivors + report lines.
C3_Accounted ==
  /\ Cardinality(ValidIdx) = Len(Survivors) + Len(stdout)
  /\ \A i \in ValidIdx :
       /\ Cardinality({j \in DOMAIN Survivors :
                         KeyOf(Survivors[j]) = KeyOf(Rec(i))}) = 1
       /\ Count([k \in DOMAIN csvfile |-> IF k \in ValidIdx THEN Rec(k) ELSE <<>>],
                Rec(i))
            = Count(Survivors, Rec(i)) + Count(Removed, Rec(i))
  /\ \A j \in DOMAIN Survivors : Survivors[j] \in Recs
  /\ \A j \in DOMAIN stdout :
       /\ Removed[j] \in Recs
       /\ PairOf(stdout[j].kept) \in Recs
       /\ KeyOf(PairOf(stdout[j].kept)) = KeyOf(Removed[j])

C3_Witness ==
  /\ Len(csvfile) = 3
  /\ ValidIdx = {1, 2, 3}
  /\ Len(stdout) = 2
  /\ stdout[1].accented
  /\ ~stdout[2].accented

(***************************************************************************)
(* C4                                                                      *)
(***************************************************************************)
\* the triple of the claim: every component folded (trimmed as well)
FoldKey(x) ==
  <<normalize_name(LastWord(x[1])), normalize_name(x[1]), normalize_name(x[2])>>

\* the triple without the trimming: accents stripped and lower-cased only
AccentKey(x) ==
  <<Lower(AsciiIgnore(NFKD(LastWord(x[1])))),
    Lower(AsciiIgnore(NFKD(x[1]))),
    Lower(AsciiIgnore(NFKD(x[2])))>>

\* C4 as stated: the returned list is non-decreasing in (fold of the last word
\* of the family name, fold of the family name, fold of the given name).
C4_SortedByFold ==
  pc /= "reading" =>
    \A i, j \in DOMAIN names :
      i < j => ~TupleLess(FoldKey(names[j]), FoldKey(names[i]))

\* C4 amended: the returned list is non-decreasing in the triple (last word
\* of the family name, family name, given name), each with its accents
\* stripped and lower-cased but not trimmed; a multi-word family name is
\* placed by its last word.
C4_SortedByKey ==
  pc /= "reading" =>
    \A i, j \in DOMAIN names :
      i < j => ~TupleLess(AccentKey(names[j]), AccentKey(names[i]))

C4_Witness ==
  /\ pc = "returned"
  /\ Len(names) = 3
  /\ names[1][1] = <<105, 32, 98>>
  /\ names[3][1] = <<98, 32, 105>>

(***************************************************************************)
(* C5                                                                      *)
(***************************************************************************)
NoBlankNamed ==
  /\ \A j \in DOMAIN Survivors : Survivors[j][1] /= <<>> /\ Survivors[j][2] /= <<>>
  /\ \A j \in DOMAIN stdout :
       /\ stdout[j].kept.given /= <<>> /\ stdout[j].kept.family /= <<>>
       /\ stdout[j].removed.given /= <<>> /\ stdout[j].removed.family /= <<>>
  /\ \A j \in DOMAIN names : names[j][1] /= <<>> /\ names[j][2] /= <<>>

\* C5: a row whose given or family name is empty after trimming leaves the
\* mapping and the report unchanged, is never a survivor, is never named in a
\* report line, and the scan goes on.
C5_SkipIncomplete ==
  [][ /\ (RowRead /\ (Blank(NewRow.given_name) \/ Blank(NewRow.family_name)))
         => /\ names_dict' = names_dict
            /\ stdout' = stdout
            /\ pc' = "reading"
      /\ NoBlankNamed' ]_vars

C5_Witness ==
  /\ Len(csvfile) = 3
  /\ Blank(csvfile[1].given_name) /\ ~Blank(csvfile[1].family_name)
  /\ Blank(csvfile[2].family_name) /\ ~Blank(csvfile[2].given_name)
  /\ 3 \in ValidIdx
  /\ Len(names_dict) = 1
  /\ pc = "done"

(***************************************************************************)
(* C6                                                                      *)
(***************************************************************************)
EscapeOf(c) ==
  CASE c = 92  -> Textbackslash
    [] c = 38  -> <<92, 38>>
    [] c = 37  -> <<92, 37>>
    [] c = 36  -> <<92, 36>>
    [] c = 35  -> <<92, 35>>
    [] c = 95  -> <<92, 95>>
    [] c = 123 -> <<92, 123>>
    [] c = 125 -> <<92, 125>>
    [] c = 126 -> Textasciitilde
    [] c = 94  -> Textasciicircum
    [] OTHER   -> <<c>>

EscapeEach(s) == Flatten([i \in DOMAIN s |-> EscapeOf(s[i])])

\* C6: the escaped name is the character-by-character concatenation of the
\* escapes of its characters.
C6_PerCharEscape ==
  pc = "done" =>
    \A i \in DOMAIN tex :
      tex[i] = <<32, 32, 92, 105, 116, 101, 109, 32>>
                 \o EscapeEach(names[i][2]) \o <<32>>
                 \o EscapeEach(names[i][1]) \o <<10>>

(***************************************************************************)
(* C7                                                                      *)
(***************************************************************************)
\* first character upper-cased, the rest lower-cased, for a one-word name
Cap(f) ==
  IF WordCount(f) = 1 THEN <<TitleChar(f[1])>> \o Lower(Tail(f)) ELSE f

\* C7: the returned names are the survivors with every one-word family name
\* capitalized and every other family name unchanged; the mapping and the
\* report hold the names as read.
C7_Capitalized ==
  /\ \A j \in DOMAIN Survivors : Survivors[j] \in Recs
  /\ \A j \in DOMAIN stdout :
       PairOf(stdout[j].kept) \in Recs /\ PairOf(stdout[j].removed) \in Recs
  /\ pc /= "reading" =>
       LET want == [j \in DOMAIN Survivors |->
                      <<Cap(Survivors[j][1]), Survivors[j][2]>>]
       IN /\ Len(names) = Len(want)
          /\ \A j \in DOMAIN want : Count(names, want[j]) = Count(want, want[j])

C7_Witness ==
  /\ pc = "returned"
  /\ \E i, j \in DOMAIN names :
       names[i][1] = <<73, 98>> /\ names[j][1] = <<98, 32, 105>>
  /\ \E j \in DOMAIN Survivors : Survivors[j][1] = <<105, 66>>
  /\ stdout /= <<>>

(***************************************************************************)
(* C8                                                                      *)
(***************************************************************************)
\* C8: two returned names have equal sort keys only if they are equal after
\* folding, and the returned list is strictly increasing in sort key.
C8_StrictlyIncreasing ==
  pc /= "reading" =>
    \A i, j \in DOMAIN names :
      i < j =>
        /\ SortKeyOf(names[i]) = SortKeyOf(names[j])
             => KeyOf(names[i]) = KeyOf(names[j])
        /\ TupleLess(SortKeyOf(names[i]), SortKeyOf(names[j]))

(***************************************************************************)
(* C9                                                                      *)
(***************************************************************************)
LastLine == stdout'[Len(stdout')]

\* C9: a valid arrival R whose key is mapped to P replaces P and is reported
\* as kept exactly when its score is strictly greater; otherwise P stays and
\* R is reported as removed; no other key changes; every report line names
\* two records of one key, the kept one with no smaller score.
C9_ResolverStep ==
  [][ /\ (RowRead /\ ~Blank(NewRow.given_name) /\ ~Blank(NewRow.family_name)
            /\ HasKey(names_dict, KeyOf(NewRec)))
         => LET K == KeyOf(NewRec)
                R == NewRec
                P == Lookup(names_dict, K)
            IN /\ Len(stdout') = Len(stdout) + 1
               /\ SubSeq(stdout', 1, Len(stdout)) = stdout
               /\ IF Score(R) > Score(P)
                  THEN /\ Lookup(names_dict', K) = R
                       /\ PairOf(LastLine.kept) = R
                       /\ PairOf(LastLine.removed) = P
                  ELSE /\ Lookup(names_dict', K) = P
                       /\ PairOf(LastLine.kept) = P
                       /\ PairOf(LastLine.removed) = R
               /\ Len(names_dict') = Len(names_dict)
               /\ \A i \in DOMAIN names_dict :
                    names_dict[i].norm_pair /= K => names_dict'[i] = names_dict[i]
      /\ \A j \in DOMAIN stdout' :
           /\ KeyOf(PairOf(stdout'[j].kept)) = KeyOf(PairOf(stdout'[j].removed))
           /\ Score(PairOf(stdout'[j].kept)) >= Score(PairOf(stdout'[j].removed)) ]_vars

C9_Witness ==
  /\ Len(names_dict) = 1
  /\ Len(stdout) = 2
  /\ stdout[1].accented
  /\ ~stdout[2].accented
  /\ Score(PairOf(stdout[2].kept)) = Score(PairOf(stdout[2].removed))
  /\ stdout[2].kept /= stdout[2].removed

(***************************************************************************)
(* C10                                                                     *)
(***************************************************************************)
Group(k) == {i \in ValidIdx : KeyOf(Rec(i)) = k}

\* the earliest record of group g among those of maximum accent score
EarliestMax(g) ==
  LET best == {i \in g : \A j \in g : Score(Rec(j)) <= Score(Rec(i))}
  IN Rec(CHOOSE i \in best : \A j \in best : i <= j)

RepresentativeIsEarliestMax ==
  \A e \in DOMAIN names_dict :
    LET g == Group(names_dict[e].norm_pair)
    IN g /= {} /\ names_dict[e].orig_pair = EarliestMax(g)

ScoreNeverDecreases ==
  \A e \in DOMAIN names_dict :
    /\ e \in DOMAIN names_dict'
    /\ names_dict'[e].norm_pair = names_dict[e].norm_pair
    /\ Score(names_dict'[e].orig_pair) >= Score(names_dict[e].orig_pair)

\* C10: after any prefix of the input the representative of a key is the
\* earliest of the records of its group that have the maximum accent score
\* so far, and a representative's accent score never decreases.
C10_EarliestMax == []RepresentativeIsEarliestMax /\ [][ScoreNeverDecreases]_vars

C10_Witness ==
  /\ Len(csvfile) = 3
  /\ ValidIdx = {1, 2, 3}
  /\ Len(names_dict) = 1
  /\ Score(Rec(2)) < Score(Rec(1))
  /\ Score(Rec(3)) = Score(Rec(1))
  /\ Rec(3) /= Rec(1)
  /\ pc = "done"

====
